---- MODULE Spec2Model ----
(***************************************************************************)
(* fetchx: the request execution pipeline of src/index.ts and the helpers  *)
(* of src/lib/utils.ts.  One logical call is followed from the client      *)
(* factory (create / extend) through processOptions into the pRetry loop   *)
(* that drives the attempt function and the shouldRetry decision.          *)
(*                                                                         *)
(* JavaScript objects are functions from their own keys to values; a key   *)
(* that is not set is not in the DOMAIN.  Times are in milliseconds.       *)
(***************************************************************************)
EXTENDS Integers, Sequences, FiniteSets, TLC

\* ---------------------------------------------------------------- bounds
\* largest retry ceiling a caller configures in the explored calls
MaxRetries == 2
\* longest chain of client.extend() derivations before the call
MaxExtend == 2
\* most entries of the headers overlay handed to mergeHeaders on its own
MaxOverlay == 2

\* ------------------------------------------------------- object helpers
EmptyRec == [k \in {} |-> 0]

Has(o, k) == k \in DOMAIN o

\* {...a, ...b}
Spread(a, b) == [k \in DOMAIN a \cup DOMAIN b |-> IF k \in DOMAIN b THEN b[k] ELSE a[k]]

\* const {prefixUrl, ...defaults} = defaultOpts
Omit(o, k) == [x \in DOMAIN o \ {k} |-> o[x]]

RECURSIVE Pow2(_)
Pow2(n) == IF n <= 0 THEN 1 ELSE 2 * Pow2(n - 1)

\* ------------------------------------------------------------- headers
\* A header value is the sequence of the parts that ", " joins.
\* Headers objects are functions from lower-cased names to values.
Lower(name) ==
    CASE name = "Content-Type" -> "content-type"
      [] name = "X-Api-Key" -> "x-api-key"
      [] name = "Cookie" -> "cookie"
      [] name = "Authorization" -> "authorization"
      [] OTHER -> name

\* Headers.prototype.set
HeadersSet(h, name, value) == Spread(h, [k \in {Lower(name)} |-> value])

\* Headers.prototype.append
HeadersAppend(h, name, value) ==
    IF Has(h, Lower(name))
    THEN Spread(h, [k \in {Lower(name)} |-> h[Lower(name)] \o value])
    ELSE HeadersSet(h, name, value)

\* A header source is absent ("none"), a Headers instance ("headers", h),
\* a plain object ("object", a sequence of <<name, value>> entries in
\* property order) or an array of [name, value] pairs ("pairs").
NoHeaders == [form |-> "none"]
HeadersOf(h) == [form |-> "headers", h |-> h]
ObjectOf(entries) == [form |-> "object", entries |-> entries]
PairsOf(entries) == [form |-> "pairs", entries |-> entries]

\* obj[name] = value on a plain object
RECURSIVE AssignEntry(_, _, _)
AssignEntry(entries, name, value) ==
    IF entries = <<>> THEN <<(<<name, value>>)>>
    ELSE IF Head(entries)[1] = name THEN <<(<<name, value>>)>> \o Tail(entries)
         ELSE <<Head(entries)>> \o AssignEntry(Tail(entries), name, value)

ObjectAssign(obj, name, value) == ObjectOf(AssignEntry(obj.entries, name, value))

RECURSIVE AppendAll(_, _)
AppendAll(h, entries) ==
    IF entries = <<>> THEN h
    ELSE AppendAll(HeadersAppend(h, Head(entries)[1], Head(entries)[2]), Tail(entries))

RECURSIVE SetAll(_, _)
SetAll(h, entries) ==
    IF entries = <<>> THEN h
    ELSE SetAll(HeadersSet(h, Head(entries)[1], Head(entries)[2]), Tail(entries))

\* new Headers(init)
NewHeaders(init) ==
    CASE init.form = "none" -> EmptyRec
      [] init.form = "headers" -> init.h
      [] init.form = "object" -> AppendAll(EmptyRec, init.entries)
      [] init.form = "pairs" -> AppendAll(EmptyRec, init.entries)

\* the entries a Headers instance iterates over (one per name)
RECURSIVE HeaderEntries(_)
HeaderEntries(h) ==
    IF DOMAIN h = {} THEN <<>>
    ELSE LET k == CHOOSE x \in DOMAIN h : TRUE
         IN <<(<<k, h[k]>>)>> \o HeaderEntries(Omit(h, k))

\* Object.entries(array): the own properties of an array are its indices,
\* and each value is the [name, value] pair, an array that join(', ') turns
\* into one header value
IndexKey(i) == <<"0", "1", "2", "3">>[i]

ArrayEntries(pairs) ==
    [i \in 1..Len(pairs) |-> <<IndexKey(i), <<pairs[i][1]>> \o pairs[i][2]>>]

\* the overlay is appended to the values of the defaults
mergeHeadersAppends(defaults, options) ==
    LET base == NewHeaders(defaults)
    IN CASE options.form = "none" -> base
         [] options.form = "headers" -> AppendAll(base, HeaderEntries(options.h))
         [] options.form = "object" -> AppendAll(base, options.entries)
         [] options.form = "pairs" -> AppendAll(base, ArrayEntries(options.entries))

mergeHeaders(defaults, options) ==
    LET base == NewHeaders(defaults)
    IN CASE options.form = "none" -> base
         [] options.form = "headers" -> SetAll(base, HeaderEntries(options.h))
         [] options.form = "object" -> SetAll(base, options.entries)
         [] options.form = "pairs" -> SetAll(base, ArrayEntries(options.entries))

\* ------------------------------------------------------------- Retry-After
\* The Retry-After header of a response: absent, a number of seconds given
\* in micro-seconds (so that the floor to milliseconds is visible), or an
\* HTTP date given as its distance from now in milliseconds.
NoRetryAfter == [form |-> "none"]
Seconds(us) == [form |-> "number", us |-> us]
HttpDate(delta) == [form |-> "date", delta |-> delta]
\* a value that is neither a number nor a date
Unparsable == [form |-> "other"]

\* the value when the function returns undefined
Undefined == -1000000
\* the value when the function returns NaN
NaN == -2000000

\* the milliseconds are rounded to the nearest
calculateRetryAfterRounds(retryAfter) ==
    CASE retryAfter.form = "none" -> Undefined
      [] retryAfter.form = "date" -> IF retryAfter.delta <= 0 THEN 1 ELSE retryAfter.delta
      [] retryAfter.form = "number" -> (retryAfter.us + 500) \div 1000
      [] retryAfter.form = "other" -> NaN

calculateRetryAfter(retryAfter) ==
    CASE retryAfter.form = "none" -> Undefined
      [] retryAfter.form = "date" -> IF retryAfter.delta <= 0 THEN 1 ELSE retryAfter.delta
      [] retryAfter.form = "number" -> retryAfter.us \div 1000
      [] retryAfter.form = "other" -> NaN

\* -------------------------------------------------------------------- URLs
\* A URL string is a sequence of tokens: an origin ("http://base.com"),
\* the separator "/" and path segments; its query is a sequence of
\* <<key, value>> pairs.  A URL object also has an identity (ref).
IsOrigin(tok) == tok \in {"http://base.com", "https://example.com"}

Str(path, query) == [path |-> path, query |-> query]

startsWithSlash(s) == s.path # <<>> /\ Head(s.path) = "/"
endsWithSlash(s) == s.path # <<>> /\ s.path[Len(s.path)] = "/"

\* new URL(s): the path of an origin-only URL is "/"
ParseUrl(s, ref) ==
    [ref |-> ref,
     path |-> IF Len(s.path) = 1 THEN s.path \o <<"/">> ELSE s.path,
     search |-> s.query]

\* new URL(rel, base) for a base that ends with "/"
ParseUrlWithBase(rel, base, ref) ==
    IF rel.path # <<>> /\ IsOrigin(Head(rel.path)) THEN ParseUrl(rel, ref)
    ELSE IF startsWithSlash(rel)
         THEN [ref |-> ref, path |-> <<Head(base.path)>> \o rel.path, search |-> rel.query]
         ELSE [ref |-> ref, path |-> base.path \o rel.path, search |-> rel.query]

\* -------------------------------------------------------------- the client
defaultRetryConfig ==
    [retries |-> 2,
     minTimeout |-> 50,
     statusCodes |-> {408, 413, 429, 500, 502, 503, 504, 521, 522, 524},
     networkErrors |-> TRUE]

\* create(defaultOpts): the defaults the returned client is bound to
create(defaultOpts) ==
    Spread(defaultOpts,
           [retry |-> Spread(defaultRetryConfig,
                             IF Has(defaultOpts, "retry") THEN defaultOpts.retry ELSE EmptyRec)])

\* the options of the parent win over those of the derivation
extendParentWins(defaults, extendOpts) == create(Spread(extendOpts, defaults))

\* request.extend(extendOpts)
extend(defaults, extendOpts) == create(Spread(defaults, extendOpts))

\* ------------------------------------------------------------ processOptions
HeaderSource(o) == IF Has(o, "headers") THEN o.headers ELSE NoHeaders

\* lines 46-51: the shallow merge, headers merged by mergeHeaders
MergedOptions(defaultOpts, options) ==
    LET defaults == Omit(defaultOpts, "prefixUrl")
    IN Spread(Spread(defaults, options),
              [headers |-> mergeHeaders(HeaderSource(defaults), HeaderSource(options))])

\* lines 53-66: the URL the target resolves to
ResolveUrl(defaultOpts, url) ==
    IF Has(defaultOpts, "prefixUrl") /\ defaultOpts.prefixUrl.path # <<>>
    THEN LET prefixUrl == defaultOpts.prefixUrl
             normalizedUrl == IF startsWithSlash(url) THEN Str(Tail(url.path), url.query) ELSE url
         IN IF normalizedUrl.path = <<>> /\ normalizedUrl.query = <<>>
            THEN ParseUrl(prefixUrl, "resolved")
            ELSE LET normalizedPrefix ==
                         IF endsWithSlash(prefixUrl) THEN prefixUrl
                         ELSE Str(prefixUrl.path \o <<"/">>, prefixUrl.query)
                 IN ParseUrlWithBase(normalizedUrl, normalizedPrefix, "resolved")
    ELSE ParseUrl(url, "resolved")

\* URLSearchParamsInit: a string of pairs with or without a leading "?",
\* a plain object, or a URLSearchParams instance
ParamsString(question, pairs) == [form |-> "string", question |-> question, pairs |-> pairs]
ParamsObject(entries) == [form |-> "object", entries |-> entries]
ParamsInstance(entries) == [form |-> "params", entries |-> entries]

\* line 68: if (opts.searchParams); of these values the empty string
\* alone is falsy
Provided(opts) ==
    /\ Has(opts, "searchParams")
    /\ ~(/\ opts.searchParams.form = "string"
         /\ ~opts.searchParams.question
         /\ opts.searchParams.pairs = <<>>)

\* new URLSearchParams(init).toString(): the pairs of the string, its
\* leading "?" dropped, or the entries of the object
URLSearchParams(init) ==
    IF init.form = "string" THEN init.pairs ELSE init.entries

\* lines 68-70
ApplySearchParams(url, opts) ==
    IF Provided(opts)
    THEN [url EXCEPT !.search = URLSearchParams(opts.searchParams)]
    ELSE url

\* the retry option of the call takes the place of the client's
MergeRetryReplaces(defaultOpts, opts) == opts

\* lines 72-74
MergeRetry(defaultOpts, opts) ==
    IF Has(defaultOpts, "retry") /\ Has(opts, "retry")
    THEN Spread(opts, [retry |-> Spread(defaultOpts.retry, opts.retry)])
    ELSE opts

\* the conflict goes unchecked
BodyConflictUnchecked(opts) == FALSE

\* line 77: the TypeError of jsonBody together with body
BodyConflict(opts) == Has(opts, "jsonBody") /\ Has(opts, "body")

\* lines 81-85: JSON.stringify(jsonBody) becomes the body
ApplyJsonBody(opts) ==
    IF Has(opts, "jsonBody")
    THEN LET withBody == Spread(opts, [body |-> <<"json", opts.jsonBody>>])
             withType == IF Has(withBody.headers, "content-type") THEN withBody
                         ELSE [withBody EXCEPT !.headers =
                                   HeadersSet(@, "content-type", <<"application/json">>)]
         IN Omit(withType, "jsonBody")
    ELSE opts

\* lines 29-35 and 88-93: the cookie header of the jar's cookie string
ApplyCookies(opts, cookieString) ==
    IF Has(opts, "cookieJar") /\ cookieString # <<>>
    THEN [opts EXCEPT !.headers =
              mergeHeaders(HeadersOf(@), ObjectOf(<<(<<"cookie", cookieString>>)>>))]
    ELSE opts

\* lines 95-98: signals are the sets of the sources that fire them
TimeoutConfigured(opts) == Has(opts, "timeout") /\ opts.timeout # 0

\* the timeout signal takes the place of the caller's signal
ApplyTimeoutReplaces(opts) ==
    IF TimeoutConfigured(opts) THEN Spread(opts, [signal |-> {"timeout"}]) ELSE opts

\* line 96: the timers one resolution of the options starts
TimersOf(opts) == IF TimeoutConfigured(opts) THEN 1 ELSE 0

ApplyTimeout(opts) ==
    IF TimeoutConfigured(opts)
    THEN Spread(opts, [signal |-> IF Has(opts, "signal")
                                  THEN opts.signal \cup {"timeout"}
                                  ELSE {"timeout"}])
    ELSE opts

\* lines 46-98, up to the beforeRequest hook
ResolvedUrl(defaultOpts, url, options) ==
    ApplySearchParams(ResolveUrl(defaultOpts, url), MergedOptions(defaultOpts, options))

ResolvedOptions(defaultOpts, options, cookieString) ==
    ApplyTimeout(ApplyCookies(
        ApplyJsonBody(MergeRetry(defaultOpts, MergedOptions(defaultOpts, options))),
        cookieString))

\* the url the hook returned is dropped
ApplyBeforeRequestKeepsUrl(url, opts, ret) ==
    [url |-> url,
     opts |-> IF Has(ret, "opts") THEN Spread(opts, ret.opts) ELSE opts]

\* lines 101-103: what the hook returned is laid over the url and opts
ApplyBeforeRequest(url, opts, ret) ==
    [url |-> IF Has(ret, "url") THEN ret.url ELSE url,
     opts |-> IF Has(ret, "opts") THEN Spread(opts, ret.opts) ELSE opts]

\* ------------------------------------------------------ errors and responses
\* Every thrown value carries the identity (oid) of the object: the number
\* of the attempt that created it, 0 for the abort reason of the signal.
Err(kind, oid) ==
    [kind |-> kind, oid |-> oid, statusCode |-> 0, isRetryable |-> FALSE,
     retryAfter |-> NoRetryAfter, jsonBody |-> "absent", wraps |-> FALSE]

NoError == Err("none", 0)
AbortReason == Err("abort", 0)
UsageError == Err("usage", 0)

\* new HttpError(response, message, {isRetryable, jsonBody}), lines 20-26
HttpError(response, isRetryable, jsonBody, oid) ==
    [kind |-> "http", oid |-> oid, statusCode |-> response.status,
     isRetryable |-> isRetryable, retryAfter |-> response.retryAfter,
     jsonBody |-> jsonBody, wraps |-> FALSE]

Response(status, retryAfter, body, setCookie) ==
    [status |-> status, retryAfter |-> retryAfter, body |-> body, setCookie |-> setCookie]

ok(response) == response.status >= 200 /\ response.status <= 299

\* is-network-error: a TypeError with one of the transports' messages
isNetworkError(error) == error.kind = "network"

IsTypeError(error) == error.kind \in {"network", "typeError"}

\* --------------------------------------------------------------- the inputs
RetryAfterChoices ==
    {NoRetryAfter, Seconds(0), Seconds(1000000), Seconds(2000500), HttpDate(-5000), HttpDate(1500)}

ErrorResponses ==
    {Response(503, ra, "json", <<>>) : ra \in RetryAfterChoices}
    \cup {Response(404, ra, "text", <<>>) : ra \in {NoRetryAfter, Seconds(1000000)}}

SuccessResponses ==
    {Response(200, NoRetryAfter, "json", <<>>),
     Response(200, NoRetryAfter, "text", <<"sid=1">>),
     Response(204, NoRetryAfter, "text", <<>>),
     Response(205, NoRetryAfter, "text", <<>>)}

Responses == ErrorResponses \cup SuccessResponses

\* the responses an afterResponse hook puts in the place of the one it was
\* given
HookResponses ==
    {Response(200, NoRetryAfter, "json", <<>>), Response(404, NoRetryAfter, "text", <<>>)}

\* what the transport rejects with when it does not answer
FetchFailures == {"network", "typeError", "error"}

\* how the onFailedAttempt observer settles
ObserverOutcomes == {"returns", "throws"}

\* what a hook throws that is not an HttpError
HookFailures == {"error", "typeError", "nonError"}

\* an afterResponse hook that calls the transport itself may also let the
\* transport's network failure through
AfterResponseFailures == HookFailures \cup {"network"}

Opt(k, values) == {EmptyRec} \cup {[x \in {k} |-> v] : v \in values}

\* retry options: those that decide on an HttpError, and those that decide
\* on another failure
RetryChoices ==
    {Spread(Spread(a, b), c) :
        a \in Opt("retries", 0..MaxRetries),
        b \in Opt("statusCodes", {{404}}),
        c \in Opt("maxRetryAfter", {0, 1000})}
    \cup {Spread(Spread(a, b), c) :
        a \in Opt("retries", 0..MaxRetries),
        b \in Opt("networkErrors", {FALSE}),
        c \in Opt("shouldRetry", {"predicate"})}

Targets == {Str(<<"https://example.com", "/", "a">>, <<>>)}

\* the body and the hooks of a call
HookChoices ==
    {Spread(Spread(a, b), Spread(c, d)) :
        a \in Opt("body", {"raw"}),
        b \in Opt("jsonBody", {"value"}),
        c \in Opt("beforeRequest", {"hook"}),
        d \in Opt("afterResponse", {"hook"})}

\* the result mode, the cancellation and the cookie jar of a call
ModeChoices ==
    {Spread(Spread(a, b), Spread(c, d)) :
        a \in Opt("json", {TRUE}),
        b \in Opt("signal", {{"user"}}),
        c \in Opt("timeout", {0, 100}),
        d \in Opt("cookieJar", {"jar"})}

\* per-call options: the retry policies alone, and the other options
\* under a short retry policy
\* calls that observe their failed attempts, have a cookie jar and a
\* beforeRequest hook, turn a client's json mode
\* off, or let the caller's predicate retry what a json call with a cookie
\* jar throws
ObservedChoices ==
    {[retry |-> [retries |-> 1, minTimeout |-> 0, onFailedAttempt |-> "observer"]],
     [json |-> FALSE],
     [json |-> TRUE, cookieJar |-> "jar",
      retry |-> [retries |-> 1, minTimeout |-> 0, shouldRetry |-> "predicate"]],
     [cookieJar |-> "jar", beforeRequest |-> "hook", retry |-> [retries |-> 0]]}

CallOptions ==
    {EmptyRec}
    \cup {[retry |-> r] : r \in RetryChoices}
    \cup {Spread(f, [retry |-> [retries |-> 1, minTimeout |-> 0]]) : f \in HookChoices}
    \cup {Spread(f, [retry |-> [retries |-> 1]]) : f \in ModeChoices}
    \cup ObservedChoices

ExtendOptions ==
    {[json |-> TRUE, headers |-> ObjectOf(<<(<<"X-Api-Key", <<"k">> >>)>>)],
     [json |-> FALSE, body |-> "raw",
      headers |-> ObjectOf(<<(<<"Content-Type", <<"text/plain">> >>)>>),
      retry |-> [minTimeout |-> 0]],
     [retry |-> [retries |-> 1, statusCodes |-> {404}]]}

\* what the cookie jar holds when the call is made
JarContents == {<<>>, <<"sid=0">>}

\* what a beforeRequest hook resolves to: {url?, opts?}
BeforeRequestReturns(url, opts) ==
    {EmptyRec,
     [url |-> url, opts |-> opts],
     [url |-> [ref |-> "hook", path |-> <<"https://example.com", "/", "b">>, search |-> <<>>]],
     [opts |-> [headers |-> HeadersSet(opts.headers, "X-Api-Key", <<"h">>)]]}

\* ------------------------------------------------------------------- state
VARIABLES
    defaults,           \* the defaults of the client the call is made on
    depth,              \* number of extend() derivations behind the client
    pc,                 \* where the logical call stands
    pUrl, pOpts,        \* what processOptions resolved
    attemptNumber,      \* pRetry's attemptNumber
    fetchCalls,         \* number of transport calls made
    sent,               \* the url, headers and signal of the latest transport call
    res,                \* the response the attempt holds
    raised,             \* the value the latest failed attempt threw
    decision,           \* the latest retry decision
    outcome,            \* how the call settled
    elapsed,            \* time waited since the latest failure
    userAborted, timedOut,  \* the sources of cancellation that have fired
    jar,                \* the cookies the cookie jar holds
    beforeRequestCalls, \* invocations of the beforeRequest hook
    callOpts,           \* the per-call options the caller passed
    hookRet,            \* what the beforeRequest hook resolved to
    attemptOk,          \* number of the attempt whose function returned
    plainFailures,      \* every failure so far was a retryable-status
                        \* HttpError without Retry-After
    failedAttemptCalls, \* invocations of retry.onFailedAttempt
    timersStarted,      \* timers started by AbortSignal.timeout
    nearestJson,        \* the json value the latest derivation that set one
                        \* gave: {} when no derivation has
    alias,              \* whose headers object the client's defaults hold
    hookRuns,           \* invocations and returns of the afterResponse hook, and the
                        \* attempt in which it threw last
    helperCall,         \* the helper called on its own, with its arguments
    helperResult,       \* what that helper returned
    cookieUrl           \* the url getCookieString was called with

vars == <<defaults, depth, pc, pUrl, pOpts, attemptNumber, fetchCalls, sent, res, raised,
          decision, outcome, elapsed, userAborted, timedOut, jar, beforeRequestCalls,
          callOpts, hookRet, attemptOk, plainFailures, failedAttemptCalls, timersStarted,
          nearestJson, alias, hookRuns, helperCall, helperResult, cookieUrl>>

NoDecision == [made |-> FALSE, retry |-> FALSE, predicate |-> FALSE, wait |-> 0]
NoResponse == Response(0, NoRetryAfter, "text", <<>>)
NoUrl == [ref |-> "none", path |-> <<>>, search |-> <<>>]
Pending == [status |-> "pending"]
Resolved(value) == [status |-> "resolved", value |-> value]
Rejected(error) == [status |-> "rejected", error |-> error]

Init ==
    /\ defaults = create(EmptyRec)
    /\ depth = 0
    /\ pc = "idle"
    /\ pUrl = NoUrl
    /\ pOpts = EmptyRec
    /\ attemptNumber = 0
    /\ fetchCalls = 0
    /\ sent = [url |-> NoUrl, headers |-> EmptyRec, signal |-> {}]
    /\ res = NoResponse
    /\ raised = NoError
    /\ decision = NoDecision
    /\ outcome = Pending
    /\ elapsed = 0
    /\ userAborted = FALSE
    /\ timedOut = FALSE
    /\ jar = <<>>
    /\ beforeRequestCalls = 0
    /\ callOpts = EmptyRec
    /\ hookRet = EmptyRec
    /\ attemptOk = 0
    /\ plainFailures = TRUE
    /\ failedAttemptCalls = 0
    /\ timersStarted = 0
    /\ nearestJson = {}
    /\ alias = "none"
    /\ hookRuns = [calls |-> 0, returns |-> 0, threw |-> 0]
    /\ helperCall = [fn |-> "none"]
    /\ helperResult = [fn |-> "none"]
    /\ cookieUrl = NoUrl

\* --------------------------------------------------------- the retry policy
Policy == IF Has(pOpts, "retry") THEN pOpts.retry ELSE EmptyRec

\* retries: pOpts.retry?.retries, pRetry's own default when undefined
Retries == IF Has(Policy, "retries") THEN Policy.retries ELSE 10

\* minTimeout: pOpts.retry?.minTimeout, pRetry's own default when undefined
MinTimeout == IF Has(Policy, "minTimeout") THEN Policy.minTimeout ELSE 1000

\* only the caller's signal is looked at
AbortedUserOnly ==
    Has(pOpts, "signal") /\ "user" \in pOpts.signal /\ userAborted

\* signal: pOpts.signal ?? undefined; fired when one of its sources has
Aborted ==
    /\ Has(pOpts, "signal")
    /\ \/ "user" \in pOpts.signal /\ userAborted
       \/ "timeout" \in pOpts.signal /\ timedOut

\* pRetry's delay before attempt attemptNumber + 1 (factor 2, no jitter)
BackoffDelay == MinTimeout * Pow2(attemptNumber - 1)

\* scheduler.wait(delay): a delay below 1 is a delay of 1
WaitTime(delay) == IF delay < 1 THEN 1 ELSE delay

\* the budget is found exhausted one attempt too late
BudgetExhaustedLate == attemptNumber >= Retries + 2

\* the budget is found exhausted one attempt too early
BudgetExhaustedEarly == attemptNumber >= Retries

\* pRetry: no retry is left after attempt retries + 1
BudgetExhausted == attemptNumber >= Retries + 1

\* the networkErrors flag is read the wrong way round
NetworkRetryInverted(error) ==
    Has(Policy, "networkErrors") /\ ~Policy.networkErrors /\ isNetworkError(error)

\* line 158
NetworkRetry(error) ==
    Has(Policy, "networkErrors") /\ Policy.networkErrors /\ isNetworkError(error)

\* the isRetryable flag of the error is not looked at
StatusRetryableIgnoresFlag(error) ==
    Has(Policy, "statusCodes") /\ error.statusCode \in Policy.statusCodes

\* lines 164-166
StatusRetryable(error) ==
    \/ error.isRetryable
    \/ Has(Policy, "statusCodes") /\ error.statusCode \in Policy.statusCodes

\* line 173: if (retryAfter)
Truthy(retryAfter) == retryAfter \notin {Undefined, NaN, 0}

\* lines 172-176: the Retry-After exceeds the configured maximum
RetryAfterRefused(retryAfter) ==
    /\ Truthy(retryAfter)
    /\ Has(Policy, "maxRetryAfter") /\ Policy.maxRetryAfter # 0
    /\ retryAfter > Policy.maxRetryAfter

\* lines 155-181: the shouldRetry handed to pRetry; answer is what the
\* caller's predicate returns when it is asked
shouldRetry(error, answer) ==
    IF error.kind # "http"
    THEN IF NetworkRetry(error)
         THEN [made |-> TRUE, retry |-> TRUE, predicate |-> FALSE, wait |-> 0]
         ELSE IF Has(Policy, "shouldRetry")
              THEN [made |-> TRUE, retry |-> answer, predicate |-> TRUE, wait |-> 0]
              ELSE [made |-> TRUE, retry |-> FALSE, predicate |-> FALSE, wait |-> 0]
    ELSE IF ~StatusRetryable(error)
         THEN [made |-> TRUE, retry |-> FALSE, predicate |-> FALSE, wait |-> 0]
         ELSE LET retryAfter == calculateRetryAfter(error.retryAfter)
              IN IF Truthy(retryAfter)
                 THEN IF RetryAfterRefused(retryAfter)
                      THEN [made |-> TRUE, retry |-> FALSE, predicate |-> FALSE, wait |-> 0]
                      ELSE [made |-> TRUE, retry |-> TRUE, predicate |-> FALSE,
                            wait |-> WaitTime(retryAfter)]
                 ELSE [made |-> TRUE, retry |-> TRUE, predicate |-> FALSE, wait |-> 0]

\* pRetry: a thrown value that is not an Error becomes a TypeError
NormalizedError(value) ==
    IF value.kind = "nonError"
    THEN [Err("typeError", value.oid) EXCEPT !.wraps = TRUE]
    ELSE value

\* ------------------------------------------------------------------ actions
\* line 188: {...defaults, ...extendOpts} copies the reference to the
\* headers object, so a client derived without headers of its own holds
\* the object its parent holds
InheritedAlias(extendOpts) ==
    IF Has(extendOpts, "headers") THEN "own"
    ELSE IF alias \in {"own", "shared"} THEN "shared" ELSE alias

\* client.extend(extendOpts), before the call is made
Extend(extendOpts) ==
    /\ pc = "idle"
    /\ depth < MaxExtend
    /\ defaults' = extend(defaults, extendOpts)
    /\ depth' = depth + 1
    /\ nearestJson' = IF Has(extendOpts, "json") THEN {extendOpts.json} ELSE nearestJson
    /\ alias' = InheritedAlias(extendOpts)
    /\ UNCHANGED <<pc, pUrl, pOpts, attemptNumber, fetchCalls, sent, res, raised, decision,
                   outcome, elapsed, userAborted, timedOut, jar, beforeRequestCalls, callOpts, hookRet,
                   attemptOk, plainFailures, failedAttemptCalls, timersStarted,
                   hookRuns, helperCall, helperResult, cookieUrl>>

\* the caller assigns a property of the plain headers object it created
\* the parent client with: the derived client's defaults hold that object
MutateHeaders ==
    /\ pc = "idle"
    /\ alias = "shared"
    /\ alias' = "mutated"
    /\ defaults' = [defaults EXCEPT !.headers = ObjectAssign(@, "X-Api-Key", <<"m">>)]
    /\ UNCHANGED <<depth, pc, pUrl, pOpts, attemptNumber, fetchCalls, sent, res, raised,
                   decision, outcome, elapsed, userAborted, timedOut, jar, beforeRequestCalls,
                   callOpts, hookRet, attemptOk, plainFailures, failedAttemptCalls,
                   timersStarted, nearestJson, hookRuns, helperCall, helperResult, cookieUrl>>

\* request(url, opts) up to the beforeRequest hook: processOptions lines 46-99
Request(url, opts, cookies, abortedAlready) ==
    /\ pc = "idle"
    /\ cookies # <<>> => Has(opts, "cookieJar")
    /\ abortedAlready => Has(opts, "signal")
    /\ callOpts' = opts
    /\ LET merged == MergeRetry(defaults, MergedOptions(defaults, opts))
       IN IF BodyConflict(merged)
          THEN /\ pc' = "failed"
               /\ outcome' = Rejected(UsageError)
               /\ UNCHANGED <<pUrl, pOpts, userAborted, jar, timersStarted, cookieUrl>>
          ELSE /\ pUrl' = ResolvedUrl(defaults, url, opts)
               /\ jar' = cookies
               /\ cookieUrl' = IF Has(merged, "cookieJar")
                               THEN ResolvedUrl(defaults, url, opts) ELSE NoUrl
               /\ pOpts' = ResolvedOptions(defaults, opts, cookies)
               /\ timersStarted' = timersStarted + TimersOf(merged)
               /\ userAborted' = abortedAlready
               /\ pc' = IF Has(merged, "beforeRequest") THEN "beforeRequest" ELSE "loop"
               /\ UNCHANGED outcome
    /\ UNCHANGED <<defaults, depth, attemptNumber, fetchCalls, sent, res, raised, decision,
                   elapsed, timedOut, beforeRequestCalls, hookRet, attemptOk, plainFailures,
                   failedAttemptCalls, nearestJson,
                   alias, hookRuns, helperCall, helperResult>>

\* the beforeRequest hook resolves: lines 101-106
BeforeRequestDone(ret) ==
    /\ pc = "beforeRequest"
    /\ beforeRequestCalls' = beforeRequestCalls + 1
    /\ pUrl' = ApplyBeforeRequest(pUrl, pOpts, ret).url
    /\ pOpts' = ApplyBeforeRequest(pUrl, pOpts, ret).opts
    /\ hookRet' = ret
    /\ pc' = "loop"
    /\ UNCHANGED <<defaults, depth, attemptNumber, fetchCalls, sent, res, raised, decision,
                   outcome, elapsed, userAborted, timedOut, jar, callOpts, attemptOk, plainFailures,
                   failedAttemptCalls, timersStarted, nearestJson,
                   alias, hookRuns, helperCall, helperResult, cookieUrl>>

\* the beforeRequest hook rejects: processOptions rejects, pRetry is not entered
BeforeRequestThrows(kind) ==
    /\ pc = "beforeRequest"
    /\ beforeRequestCalls' = beforeRequestCalls + 1
    /\ pc' = "failed"
    /\ outcome' = Rejected(Err(kind, 0))
    /\ UNCHANGED <<defaults, depth, pUrl, pOpts, attemptNumber, fetchCalls, sent, res, raised,
                   decision, elapsed, userAborted, timedOut, jar, callOpts, hookRet, attemptOk, plainFailures,
                   failedAttemptCalls, timersStarted, nearestJson,
                   alias, hookRuns, helperCall, helperResult, cookieUrl>>

\* every attempt is handed a timer of its own
AttemptSignalFresh == {"fresh"}

\* line 120: the signal fetch is given is pOpts.signal
AttemptSignal == IF Has(pOpts, "signal") THEN pOpts.signal ELSE {}

\* pRetry's loop reaches an attempt: signal.throwIfAborted(), then
\* input(attemptNumber) calls fetch(pUrl, pOpts), line 120
\* every attempt sends the headers of the first
StartAttemptSnapshot ==
    /\ pc = "loop"
    /\ ~Aborted
    /\ attemptNumber' = attemptNumber + 1
    /\ fetchCalls' = fetchCalls + 1
    /\ sent' = [url |-> pUrl,
                headers |-> IF fetchCalls = 0 THEN pOpts.headers ELSE sent.headers,
                signal |-> AttemptSignal]
    /\ pc' = "fetching"
    /\ res' = NoResponse
    /\ raised' = NoError
    /\ decision' = NoDecision
    /\ elapsed' = 0
    /\ UNCHANGED <<defaults, depth, pUrl, pOpts, outcome, userAborted, timedOut, jar,
                   beforeRequestCalls, callOpts, hookRet, attemptOk, plainFailures,
                   failedAttemptCalls, timersStarted, nearestJson,
                   alias, hookRuns, helperCall, helperResult, cookieUrl>>

\* lines 119-120: an attempt hands pUrl and pOpts to fetch
StartAttempt ==
    /\ pc = "loop"
    /\ ~Aborted
    /\ attemptNumber' = attemptNumber + 1
    /\ fetchCalls' = fetchCalls + 1
    /\ sent' = [url |-> pUrl, headers |-> pOpts.headers, signal |-> AttemptSignal]
    /\ pc' = "fetching"
    /\ res' = NoResponse
    /\ raised' = NoError
    /\ decision' = NoDecision
    /\ elapsed' = 0
    /\ UNCHANGED <<defaults, depth, pUrl, pOpts, outcome, userAborted, timedOut, jar,
                   beforeRequestCalls, callOpts, hookRet, attemptOk, plainFailures,
                   failedAttemptCalls, timersStarted, nearestJson,
                   alias, hookRuns, helperCall, helperResult, cookieUrl>>

\* the signal has fired when the loop is reached: pRetry rejects with its reason
LoopAborted ==
    /\ pc = "loop"
    /\ Aborted
    /\ pc' = "failed"
    /\ outcome' = Rejected(AbortReason)
    /\ UNCHANGED <<defaults, depth, pUrl, pOpts, attemptNumber, fetchCalls, sent, res, raised,
                   decision, elapsed, userAborted, timedOut, jar, beforeRequestCalls, callOpts, hookRet,
                   attemptOk, plainFailures,
                   failedAttemptCalls, timersStarted, nearestJson,
                   alias, hookRuns, helperCall, helperResult, cookieUrl>>

\* the attempt function throws: pRetry catches the value
Throw(value) ==
    /\ raised' = value
    /\ pc' = "caught"
    /\ elapsed' = 0
    /\ decision' = NoDecision
    /\ plainFailures' = (/\ plainFailures
                         /\ value.kind = "http"
                         /\ Has(Policy, "statusCodes")
                         /\ value.statusCode \in Policy.statusCodes
                         /\ value.retryAfter = NoRetryAfter)
    /\ UNCHANGED <<outcome, attemptOk>>

\* the attempt function returns: pRetry checks the signal once more and
\* resolves with the value
Return(value) ==
    /\ attemptOk' = attemptNumber
    /\ IF Aborted
       THEN /\ raised' = AbortReason
            /\ pc' = "caught"
            /\ elapsed' = 0
            /\ decision' = NoDecision
            /\ UNCHANGED <<outcome, plainFailures>>
       ELSE /\ outcome' = Resolved(value)
            /\ pc' = "done"
            /\ UNCHANGED <<raised, elapsed, decision, plainFailures>>

JsonMode == Has(pOpts, "json") /\ pOpts.json

\* the body of an error response parsed whatever the mode
jsonBodyAlways(response) ==
    IF response.body = "json" THEN "parsed" ELSE "absent"

\* lines 127-133: the body of an error response is parsed in json mode
\* only, and a body that does not parse leaves jsonBody undefined
jsonBody(response) ==
    IF JsonMode /\ response.body = "json" THEN "parsed" ELSE "absent"

\* 204 alone taken as a response without content
NoContentOnly204(response) == response.status = 204

\* line 143: the statuses of a response without content
NoContent(response) == response.status = 204 \/ response.status = 205

\* lines 126-149: the attempt after the afterResponse hook
Handle(response) ==
    IF ~ok(response)
    THEN /\ Throw(HttpError(response, FALSE, jsonBody(response), attemptNumber))
         /\ UNCHANGED jar
    ELSE \E stored \in IF Has(pOpts, "cookieJar") /\ response.setCookie # <<>>
                       THEN BOOLEAN ELSE {TRUE} :
            IF ~stored
            THEN Throw(Err("jar", attemptNumber)) /\ UNCHANGED jar
            ELSE /\ jar' = IF Has(pOpts, "cookieJar") THEN jar \o response.setCookie ELSE jar
                 /\ IF JsonMode
                    THEN IF NoContent(response)
                         THEN Return([kind |-> "null"])
                         ELSE IF response.body = "json"
                              THEN Return([kind |-> "json"])
                              ELSE Throw(Err("error", attemptNumber))
                    ELSE Return([kind |-> "response", response |-> response])

\* fetch resolves with a response: line 120, then lines 122-149 when no
\* afterResponse hook is configured
FetchResolves(response) ==
    /\ pc = "fetching"
    /\ res' = response
    /\ IF Has(pOpts, "afterResponse")
       THEN /\ pc' = "afterResponse"
            /\ UNCHANGED <<raised, decision, outcome, elapsed, jar, attemptOk, plainFailures>>
       ELSE Handle(response)
    /\ UNCHANGED <<defaults, depth, pUrl, pOpts, attemptNumber, fetchCalls, sent,
                   userAborted, timedOut, beforeRequestCalls, callOpts, hookRet,
                   failedAttemptCalls, timersStarted, nearestJson,
                   alias, hookRuns, helperCall, helperResult, cookieUrl>>

\* fetch rejects: a network failure, a TypeError of another kind or another Error
FetchRejects(kind) ==
    /\ pc = "fetching"
    /\ Throw(Err(kind, attemptNumber))
    /\ UNCHANGED <<defaults, depth, pUrl, pOpts, attemptNumber, fetchCalls, sent, res,
                   userAborted, timedOut, jar, beforeRequestCalls, callOpts, hookRet,
                   failedAttemptCalls, timersStarted, nearestJson,
                   alias, hookRuns, helperCall, helperResult, cookieUrl>>

\* fetch rejects with the reason of the signal that has fired
FetchAborted ==
    /\ pc = "fetching"
    /\ Aborted
    /\ Throw(AbortReason)
    /\ UNCHANGED <<defaults, depth, pUrl, pOpts, attemptNumber, fetchCalls, sent, res,
                   userAborted, timedOut, jar, beforeRequestCalls, callOpts, hookRet,
                   failedAttemptCalls, timersStarted, nearestJson,
                   alias, hookRuns, helperCall, helperResult, cookieUrl>>

\* line 123: the hook is given pOpts itself, the object every attempt
\* hands to fetch, and may set a header on it
\* or push a status onto the statusCodes array of its retry policy
HookEffects == {"none", "header", "statusCode"}

\* retry.statusCodes.push(404)
PushStatus(o) ==
    IF Has(o, "retry") /\ Has(o.retry, "statusCodes")
    THEN [o EXCEPT !.retry.statusCodes = @ \cup {404}]
    ELSE o

HookSets(opts, sets) ==
    CASE sets = "header" /\ Has(opts, "headers") ->
            [opts EXCEPT !.headers = HeadersSet(@, "Authorization", <<"Bearer new-token">>)]
      [] sets = "statusCode" -> PushStatus(opts)
      [] OTHER -> opts

\* lines 102-103: the objects a beforeRequest hook returned are the ones
\* pOpts holds, so what is done to them through pOpts is done to them
ReturnedSets(ret, sets) ==
    IF Has(ret, "opts")
    THEN [ret EXCEPT !.opts = HookSets(@, sets)]
    ELSE ret

\* lines 47-49, 73 and 112: the spreads copy the retry object and not the
\* array it holds, so pOpts.retry.statusCodes is the array of the call's
\* options when they give one
CallOwnsStatusCodes == Has(callOpts, "retry") /\ Has(callOpts.retry, "statusCodes")

\* the caller's options after the hook has acted
SharedCallOpts(sets) ==
    IF sets = "statusCode" /\ CallOwnsStatusCodes THEN PushStatus(callOpts) ELSE callOpts

\* and the array of the client's defaults otherwise
SharedDefaults(sets) ==
    IF sets = "statusCode" /\ ~CallOwnsStatusCodes THEN PushStatus(defaults) ELSE defaults

\* the afterResponse hook resolves with a response: lines 123-149
AfterResponseDone(response, sets) ==
    /\ pc = "afterResponse"
    /\ res' = response
    /\ pOpts' = HookSets(pOpts, sets)
    /\ hookRuns' = [hookRuns EXCEPT !.calls = @ + 1, !.returns = @ + 1]
    /\ hookRet' = ReturnedSets(hookRet, sets)
    /\ callOpts' = SharedCallOpts(sets)
    /\ defaults' = SharedDefaults(sets)
    /\ Handle(response)
    /\ UNCHANGED <<depth, pUrl, attemptNumber, fetchCalls, sent,
                   userAborted, timedOut, beforeRequestCalls,
                   failedAttemptCalls, timersStarted, nearestJson,
                   alias, helperCall, helperResult, cookieUrl>>

\* the afterResponse hook throws an HttpError of the response it was given
AfterResponseThrowsHttp(isRetryable, sets) ==
    /\ pc = "afterResponse"
    /\ pOpts' = HookSets(pOpts, sets)
    /\ hookRuns' = [hookRuns EXCEPT !.calls = @ + 1, !.threw = attemptNumber]
    /\ hookRet' = ReturnedSets(hookRet, sets)
    /\ callOpts' = SharedCallOpts(sets)
    /\ defaults' = SharedDefaults(sets)
    /\ Throw(HttpError(res, isRetryable, "absent", attemptNumber))
    /\ UNCHANGED <<depth, pUrl, attemptNumber, fetchCalls, sent, res,
                   userAborted, timedOut, jar, beforeRequestCalls,
                   failedAttemptCalls, timersStarted, nearestJson,
                   alias, helperCall, helperResult, cookieUrl>>

\* the afterResponse hook throws something else
AfterResponseThrows(kind) ==
    /\ pc = "afterResponse"
    /\ hookRuns' = [hookRuns EXCEPT !.calls = @ + 1, !.threw = attemptNumber]
    /\ Throw(Err(kind, attemptNumber))
    /\ UNCHANGED <<defaults, depth, pUrl, pOpts, attemptNumber, fetchCalls, sent, res,
                   userAborted, timedOut, jar, beforeRequestCalls, callOpts, hookRet,
                   failedAttemptCalls, timersStarted, nearestJson,
                   alias, helperCall, helperResult, cookieUrl>>

\* the error is delivered inside a new error object
RejectWrapped(error) ==
    /\ pc' = "failed"
    /\ outcome' = Rejected([error EXCEPT !.wraps = TRUE])

\* pRetry gives up: the call rejects with the error
Reject(error) ==
    /\ pc' = "failed"
    /\ outcome' = Rejected(error)

\* line 182 and pRetry: retry.onFailedAttempt is awaited with the context of
\* the failed attempt.  A TypeError that is not a network error is
\* rethrown before the observer (p-retry 7.0) or after it (p-retry 7.1):
\* early says which.
Notified(error, early) ==
    /\ Has(Policy, "onFailedAttempt")
    /\ (IsTypeError(error) /\ ~isNetworkError(error)) => early

\* pRetry's handling of a failed attempt up to the first wait: the
\* observer, the TypeError rule, the retry budget, then shouldRetry (lines
\* 155-182); observed is how the observer settles, answer what the
\* caller's predicate returns
Decide(answer, observed, early) ==
    /\ pc = "caught"
    /\ LET error == NormalizedError(raised)
       IN /\ failedAttemptCalls' = failedAttemptCalls + (IF Notified(error, early) THEN 1 ELSE 0)
          /\ IF Notified(error, early) /\ observed = "throws"
             THEN Reject(Err("observer", attemptNumber)) /\ UNCHANGED decision
             ELSE IF IsTypeError(error) /\ ~isNetworkError(error)
                  THEN Reject(error) /\ UNCHANGED decision
                  ELSE IF BudgetExhausted
                       THEN Reject(error) /\ UNCHANGED decision
                       ELSE /\ decision' = shouldRetry(error, answer)
                            /\ IF ~decision'.retry
                               THEN Reject(error)
                               ELSE /\ pc' = IF decision'.wait > 0
                                             THEN "retryAfterWait" ELSE "backoff"
                                    /\ UNCHANGED outcome
    /\ UNCHANGED <<defaults, depth, pUrl, pOpts, attemptNumber, fetchCalls, sent, res, raised,
                   elapsed, userAborted, timedOut, jar, beforeRequestCalls, callOpts, hookRet, attemptOk,
                   plainFailures, timersStarted, nearestJson,
                   alias, hookRuns, helperCall, helperResult, cookieUrl>>

\* scheduler.wait(retryAfter) is not awaited
RetryAfterWaitSkipped ==
    /\ pc = "retryAfterWait"
    /\ pc' = "backoff"
    /\ UNCHANGED <<defaults, depth, pUrl, pOpts, attemptNumber, fetchCalls, sent, res, raised,
                   decision, outcome, elapsed, userAborted, timedOut, jar, beforeRequestCalls,
                   callOpts, hookRet, attemptOk, plainFailures,
                   failedAttemptCalls, timersStarted, nearestJson,
                   alias, hookRuns, helperCall, helperResult, cookieUrl>>

\* scheduler.wait(retryAfter) is over: line 177, shouldRetry returns true
RetryAfterWaitDone ==
    /\ pc = "retryAfterWait"
    /\ elapsed' = elapsed + decision.wait
    /\ pc' = "backoff"
    /\ UNCHANGED <<defaults, depth, pUrl, pOpts, attemptNumber, fetchCalls, sent, res, raised,
                   decision, outcome, userAborted, timedOut, jar, beforeRequestCalls, callOpts, hookRet,
                   attemptOk, plainFailures,
                   failedAttemptCalls, timersStarted, nearestJson,
                   alias, hookRuns, helperCall, helperResult, cookieUrl>>

\* the loop goes on without pRetry's delay
BackoffSkipped ==
    /\ pc = "backoff"
    /\ pc' = IF Aborted THEN "failed" ELSE "loop"
    /\ outcome' = IF Aborted THEN Rejected(AbortReason) ELSE outcome
    /\ UNCHANGED <<defaults, depth, pUrl, pOpts, attemptNumber, fetchCalls, sent, res, raised,
                   decision, elapsed, userAborted, timedOut, jar, beforeRequestCalls, callOpts,
                   hookRet, attemptOk, plainFailures, failedAttemptCalls, timersStarted,
                   nearestJson,
                   alias, hookRuns, helperCall, helperResult, cookieUrl>>

\* pRetry's delay never ends
BackoffPending ==
    /\ pc = "backoff"
    /\ UNCHANGED vars

\* pRetry's own delay is over: the signal is checked, the loop goes on
BackoffDone ==
    /\ pc = "backoff"
    /\ elapsed' = elapsed + BackoffDelay
    /\ IF Aborted
       THEN Reject(AbortReason)
       ELSE pc' = "loop" /\ UNCHANGED outcome
    /\ UNCHANGED <<defaults, depth, pUrl, pOpts, attemptNumber, fetchCalls, sent, res, raised,
                   decision, userAborted, timedOut, jar, beforeRequestCalls, callOpts, hookRet, attemptOk,
                   plainFailures,
                   failedAttemptCalls, timersStarted, nearestJson,
                   alias, hookRuns, helperCall, helperResult, cookieUrl>>

\* pRetry's delay is pending with its abort listener on a signal that has
\* not fired: the listener is added when the delay starts and hears only
\* an abort event that comes after
Listening == pc = "backoff" /\ BackoffDelay > 0 /\ Has(pOpts, "signal") /\ ~Aborted

\* the signal fires during pRetry's delay: the listener abandons the delay
\* and the call rejects with the reason
BackoffAborted(source) ==
    /\ Listening
    /\ source \in pOpts.signal
    /\ userAborted' = (userAborted \/ source = "user")
    /\ timedOut' = (timedOut \/ source = "timeout")
    /\ Reject(AbortReason)
    /\ UNCHANGED <<defaults, depth, pUrl, pOpts, attemptNumber, fetchCalls, sent, res, raised,
                   decision, elapsed, jar, beforeRequestCalls, callOpts, hookRet,
                   attemptOk, plainFailures, failedAttemptCalls, timersStarted, nearestJson,
                   alias, hookRuns, helperCall, helperResult, cookieUrl>>

Running == pc \notin {"idle", "done", "failed"}

\* the caller aborts the signal it passed
UserAbort ==
    /\ Running
    /\ ~Listening
    /\ Has(pOpts, "signal") /\ "user" \in pOpts.signal
    /\ ~userAborted
    /\ userAborted' = TRUE
    /\ UNCHANGED <<defaults, depth, pc, pUrl, pOpts, attemptNumber, fetchCalls, sent, res,
                   raised, decision, outcome, elapsed, timedOut, jar, beforeRequestCalls, callOpts, hookRet,
                   attemptOk, plainFailures,
                   failedAttemptCalls, timersStarted, nearestJson,
                   alias, hookRuns, helperCall, helperResult, cookieUrl>>

\* the timer of AbortSignal.timeout(opts.timeout) goes off
TimeoutFires ==
    /\ Running
    /\ ~Listening
    /\ Has(pOpts, "signal") /\ "timeout" \in pOpts.signal
    /\ ~timedOut
    /\ timedOut' = TRUE
    /\ UNCHANGED <<defaults, depth, pc, pUrl, pOpts, attemptNumber, fetchCalls, sent, res,
                   raised, decision, outcome, elapsed, userAborted, jar, beforeRequestCalls, callOpts, hookRet,
                   attemptOk, plainFailures,
                   failedAttemptCalls, timersStarted, nearestJson,
                   alias, hookRuns, helperCall, helperResult, cookieUrl>>

Next ==
    \/ \E extendOpts \in ExtendOptions : Extend(extendOpts)
    \/ MutateHeaders
    \/ \E url \in Targets, opts \in CallOptions, cookies \in JarContents,
          abortedAlready \in BOOLEAN :
          Request(url, opts, cookies, abortedAlready)
    \/ \E ret \in IF pc = "beforeRequest" THEN BeforeRequestReturns(pUrl, pOpts) ELSE {} :
          BeforeRequestDone(ret)
    \/ \E kind \in HookFailures : BeforeRequestThrows(kind)
    \/ StartAttempt
    \/ LoopAborted
    \/ \E response \in Responses : FetchResolves(response)
    \/ \E kind \in FetchFailures : FetchRejects(kind)
    \/ FetchAborted
    \/ \E response \in {res} \cup HookResponses, sets \in HookEffects :
          AfterResponseDone(response, sets)
    \/ \E isRetryable \in BOOLEAN, sets \in HookEffects :
          AfterResponseThrowsHttp(isRetryable, sets)
    \/ \E kind \in AfterResponseFailures : AfterResponseThrows(kind)
    \/ \E answer \in BOOLEAN, observed \in ObserverOutcomes, early \in BOOLEAN :
          Decide(answer, observed, early)
    \/ RetryAfterWaitDone
    \/ BackoffDone
    \/ \E source \in {"user", "timeout"} : BackoffAborted(source)
    \/ UserAbort
    \/ TimeoutFires

Spec == Init /\ [][Next]_vars

\* what the call awaits completes: the hooks, the transport, the cookie
\* jar, the observer and the predicate, and the waits
Completes ==
    \/ \E ret \in IF pc = "beforeRequest" THEN BeforeRequestReturns(pUrl, pOpts) ELSE {} :
          BeforeRequestDone(ret)
    \/ \E kind \in HookFailures : BeforeRequestThrows(kind)
    \/ StartAttempt
    \/ LoopAborted
    \/ \E response \in Responses : FetchResolves(response)
    \/ \E kind \in FetchFailures : FetchRejects(kind)
    \/ FetchAborted
    \/ \E response \in {res} \cup HookResponses, sets \in HookEffects :
          AfterResponseDone(response, sets)
    \/ \E isRetryable \in BOOLEAN, sets \in HookEffects :
          AfterResponseThrowsHttp(isRetryable, sets)
    \/ \E kind \in AfterResponseFailures : AfterResponseThrows(kind)
    \/ \E answer \in BOOLEAN, observed \in ObserverOutcomes, early \in BOOLEAN :
          Decide(answer, observed, early)
    \/ RetryAfterWaitDone
    \/ BackoffDone
    \/ \E source \in {"user", "timeout"} : BackoffAborted(source)

\* the runs in which every promise the call awaits settles
FairSpec == Init /\ [][Next]_vars /\ WF_vars(Completes)

\* --------------------------------------------------- the helpers on their own
\* mergeHeaders, calculateRetryAfter and the prefixUrl resolution of
\* processOptions, each applied to arguments of its own
HeaderNames == {"X-Api-Key", "x-api-key", "Content-Type"}
HeaderValues == {<<"a">>, <<"b">>}
HeaderEntry == HeaderNames \X HeaderValues

RECURSIVE EntryLists(_)
EntryLists(n) ==
    IF n = 0 THEN {<<>>}
    ELSE EntryLists(n - 1) \cup {Append(l, e) : l \in EntryLists(n - 1), e \in HeaderEntry}

\* a plain object has every property once
DistinctNames(l) == \A i, j \in 1..Len(l) : i # j => l[i][1] # l[j][1]

\* RequestInit['headers'] | undefined, of at most n entries
HeaderSources(n) ==
    {NoHeaders}
    \cup {ObjectOf(l) : l \in {x \in EntryLists(n) : DistinctNames(x)}}
    \cup {HeadersOf(NewHeaders(ObjectOf(l))) : l \in {x \in EntryLists(n) : DistinctNames(x)}}
    \cup {PairsOf(l) : l \in EntryLists(n)}

\* Retry-After header values: seconds, also fractional, zero and signed;
\* dates behind and ahead of now; something else
RetryAfterHeaders ==
    {NoRetryAfter, Unparsable}
    \cup {Seconds(us) : us \in {-1500000, -400, 0, 400, 1000000, 2000500}}
    \cup {HttpDate(delta) : delta \in {-5000, 0, 1, 1500}}

Prefixes ==
    {Str(<<"http://base.com">>, <<>>),
     Str(<<"http://base.com", "/", "v1">>, <<>>),
     Str(<<"http://base.com", "/", "v1", "/">>, <<>>)}

PrefixTargets ==
    {Str(path, <<>>) : path \in {<<>>, <<"/">>, <<"users">>, <<"/", "users">>,
                                 <<"/", "/", "users">>, <<"users", "/", "123">>,
                                 <<"https://example.com", "/", "a">>}}

HelperFrame ==
    UNCHANGED <<defaults, depth, pc, pUrl, pOpts, attemptNumber, fetchCalls, sent, res, raised,
                decision, outcome, elapsed, userAborted, timedOut, jar, beforeRequestCalls,
                callOpts, hookRet, attemptOk, plainFailures, failedAttemptCalls,
                timersStarted, nearestJson, alias, hookRuns, cookieUrl>>

\* mergeHeaders(defaults, options)
CallMergeHeaders(d, o) ==
    /\ helperCall.fn = "none"
    /\ helperCall' = [fn |-> "mergeHeaders", defaults |-> d, options |-> o]
    /\ helperResult' = [fn |-> "mergeHeaders", headers |-> mergeHeaders(d, o)]
    /\ HelperFrame

\* calculateRetryAfter(response) of a response with the Retry-After header
CallCalculateRetryAfter(header) ==
    /\ helperCall.fn = "none"
    /\ helperCall' = [fn |-> "calculateRetryAfter", retryAfter |-> header]
    /\ helperResult' = [fn |-> "calculateRetryAfter", ms |-> calculateRetryAfter(header)]
    /\ HelperFrame

\* lines 53-66 for a client with prefixUrl
CallResolveUrl(prefixUrl, url) ==
    /\ helperCall.fn = "none"
    /\ helperCall' = [fn |-> "resolveUrl", prefixUrl |-> prefixUrl, url |-> url]
    /\ helperResult' = [fn |-> "resolveUrl", url |-> ResolveUrl([prefixUrl |-> prefixUrl], url)]
    /\ HelperFrame

\* the values of the searchParams option
SearchParamsChoices ==
    {ParamsString(question, pairs) :
        question \in BOOLEAN, pairs \in {<<>>, <<(<<"a", "1">>)>>}}
    \cup {ParamsObject(entries) : entries \in {<<>>, <<(<<"a", "1">>), (<<"b", "2">>)>>}}
    \cup {ParamsInstance(<<(<<"a", "1">>), (<<"a", "2">>)>>)}

\* target urls without and with a query of their own
QueryTargets ==
    {Str(<<"https://example.com", "/", "a">>, query) :
        query \in {<<>>, <<(<<"q", "0">>)>>, <<(<<"q", "0">>), (<<"a", "9">>)>>}}

\* lines 64-70 of processOptions on a target and the searchParams option
CallApplySearchParams(url, opts) ==
    /\ helperCall.fn = "none"
    /\ helperCall' = [fn |-> "applySearchParams", url |-> url, opts |-> opts]
    /\ helperResult' = [fn |-> "applySearchParams",
                        url |-> ApplySearchParams(ParseUrl(url, "resolved"), opts)]
    /\ HelperFrame

NextHelpers ==
    \/ \E url \in QueryTargets, opts \in Opt("searchParams", SearchParamsChoices) :
          CallApplySearchParams(url, opts)
    \/ \E d \in HeaderSources(1), o \in HeaderSources(MaxOverlay) : CallMergeHeaders(d, o)
    \/ \E header \in RetryAfterHeaders : CallCalculateRetryAfter(header)
    \/ \E prefixUrl \in Prefixes, url \in PrefixTargets : CallResolveUrl(prefixUrl, url)

Helpers == Init /\ [][NextHelpers]_vars

\* ------------------------------------------------------------------ claims
\* the retry ceiling and the retryable statuses the call was resolved to
CallRetries == IF Has(pOpts, "retry") /\ Has(pOpts.retry, "retries") THEN pOpts.retry.retries ELSE 10

CallStatusCodes ==
    IF Has(pOpts, "retry") /\ Has(pOpts.retry, "statusCodes") THEN pOpts.retry.statusCodes ELSE {}

CallMinTimeout ==
    IF Has(pOpts, "retry") /\ Has(pOpts.retry, "minTimeout") THEN pOpts.retry.minTimeout ELSE 1000

\* the call was rejected with what the onFailedAttempt observer threw
ObserverThrew == outcome.status = "rejected" /\ outcome.error.kind = "observer"

\* C1: a call with retry ceiling r invokes the transport at most r + 1
\* times, and when attempt r + 1 fails the call fails: no further attempt
\* is scheduled.
C1_AttemptsBounded ==
    [][/\ fetchCalls' <= CallRetries' + 1
       /\ (pc = "caught" /\ attemptNumber >= CallRetries + 1 /\ pc' # pc) => pc' = "failed"]_vars

C1_Witness ==
    /\ pc = "failed"
    /\ CallRetries >= 1
    /\ fetchCalls = CallRetries + 1
    /\ raised.kind = "http"
    /\ outcome.error = raised

\* C2: after a failure with an HttpError without Retry-After, with budget
\* left, the next attempt is scheduled exactly when the error is flagged
\* isRetryable or its status is in statusCodes; otherwise the call fails
\* with that error and makes no further transport call (an onFailedAttempt
\* observer, if there is one, having returned).
C2_StatusDecides ==
    [][(/\ pc = "caught" /\ pc' # pc
        /\ raised.kind = "http"
        /\ raised.retryAfter = NoRetryAfter
        /\ attemptNumber <= CallRetries
        /\ ~ObserverThrew')
       => IF raised.isRetryable \/ raised.statusCode \in CallStatusCodes
          THEN pc' = "backoff"
          ELSE /\ pc' = "failed"
               /\ outcome' = Rejected(raised)
               /\ fetchCalls' = fetchCalls]_vars

\* a 404 under the default policy has failed after one transport call
C2_Witness ==
    /\ pc = "failed"
    /\ raised.kind = "http" /\ raised.statusCode = 404 /\ ~raised.isRetryable
    /\ pOpts.retry = defaultRetryConfig
    /\ fetchCalls = 1
    /\ outcome = Rejected(raised)

\* C3 as claimed: when the first k <= r attempts fail with an HttpError of a
\* status in statusCodes without Retry-After and attempt k + 1 succeeds,
\* the call resolves and the transport was invoked exactly k + 1 times.
C3_ResolvesAfterRetries ==
    [][/\ (attemptOk = 0 /\ attemptOk' > 0 /\ plainFailures)
            => outcome'.status = "resolved" /\ fetchCalls' = attemptOk'
       /\ (pc = "caught" /\ attemptOk = 0 /\ plainFailures /\ attemptNumber <= CallRetries)
            => (pc' # "failed" \/ ObserverThrew')]_vars

\* C3 amended: the same, provided the cancellation signal of the call has
\* not fired when attempt k + 1 returns.
C3_ResolvesUnlessCancelled ==
    [][/\ (attemptOk = 0 /\ attemptOk' > 0 /\ plainFailures /\ ~Aborted)
            => outcome'.status = "resolved" /\ fetchCalls' = attemptOk'
       /\ (pc = "caught" /\ attemptOk = 0 /\ plainFailures /\ attemptNumber <= CallRetries)
            => (pc' # "failed" \/ ObserverThrew')]_vars

C3_Witness ==
    /\ pc = "done"
    /\ outcome.status = "resolved"
    /\ plainFailures
    /\ attemptOk = 3
    /\ fetchCalls = 3

\* C4: for every configured maxRetryAfter m, a failed attempt whose
\* Retry-After evaluates to more than m is not followed by another
\* attempt: the call fails with that HttpError.
C4_MaxRetryAfterRefuses ==
    [][(/\ pc = "caught" /\ pc' # pc
        /\ raised.kind = "http"
        /\ Has(pOpts.retry, "maxRetryAfter")
        /\ calculateRetryAfter(raised.retryAfter) # Undefined
        /\ calculateRetryAfter(raised.retryAfter) > pOpts.retry.maxRetryAfter)
       => pc' = "failed" /\ outcome' = Rejected(raised)]_vars

C6_NetworkErrorsRetried ==
    [][(/\ pc = "caught" /\ pc' # pc
        /\ raised.kind = "network"
        /\ Has(pOpts.retry, "networkErrors") /\ pOpts.retry.networkErrors
        /\ ~ObserverThrew')
       => /\ ~decision'.predicate
          /\ attemptNumber <= CallRetries => pc' = "backoff"]_vars

C6_Witness ==
    /\ pc = "backoff"
    /\ raised.kind = "network"
    /\ Has(pOpts.retry, "shouldRetry")
    /\ pOpts.retry.networkErrors
    /\ ~decision.predicate

\* C7: with budget left, the shouldRetry predicate is asked exactly for the
\* failures that are neither an HttpError nor a network error taken by
\* networkErrors = true; such a failure is retried iff a predicate is
\* configured and answers true; for an HttpError it is never asked.
C7_PredicateGoverns ==
    [][(pc = "caught" /\ pc' # pc)
       => /\ raised.kind = "http" => ~decision'.predicate
          /\ (/\ raised.kind # "http"
              /\ ~(/\ raised.kind = "network"
                   /\ Has(pOpts.retry, "networkErrors") /\ pOpts.retry.networkErrors)
              /\ attemptNumber <= CallRetries)
             => /\ decision'.predicate = Has(pOpts.retry, "shouldRetry")
                /\ (pc' = "backoff") = (decision'.predicate /\ decision'.retry)]_vars

C9_BodyConflictRejects ==
    (/\ pc # "idle"
     /\ Has(Spread(defaults, callOpts), "jsonBody")
     /\ Has(Spread(defaults, callOpts), "body"))
    => /\ pc = "failed"
       /\ outcome = Rejected(UsageError)
       /\ fetchCalls = 0 /\ attemptNumber = 0 /\ beforeRequestCalls = 0

\* the conflict is between a default body and a per-call jsonBody
C9_Witness ==
    /\ pc = "failed"
    /\ outcome = Rejected(UsageError)
    /\ Has(defaults, "body") /\ ~Has(callOpts, "body")
    /\ Has(callOpts, "jsonBody")
    /\ fetchCalls = 0

\* C10: a configured beforeRequest hook has been invoked exactly once when
\* the first transport call is made and is not invoked again; every
\* transport call is given the URL and the options the hook returned (the
\* headers as they are when the call is made).
C10_BeforeRequestOnce ==
    /\ beforeRequestCalls <= 1
    /\ ~Has(Spread(defaults, callOpts), "beforeRequest") => beforeRequestCalls = 0
    /\ (fetchCalls >= 1 /\ Has(Spread(defaults, callOpts), "beforeRequest"))
       => /\ beforeRequestCalls = 1
          /\ Has(hookRet, "url") => sent.url = hookRet.url
          /\ Has(hookRet, "opts") =>
                /\ \A k \in DOMAIN hookRet.opts : pOpts[k] = hookRet.opts[k]
                /\ pc = "fetching" => sent.headers = hookRet.opts.headers

C10_Witness ==
    /\ fetchCalls = 2
    /\ beforeRequestCalls = 1
    /\ Has(hookRet, "url") /\ hookRet.url.ref = "hook"
    /\ sent.url = hookRet.url

\* a cancellation source of the call has fired
Fired == userAborted \/ timedOut

\* what the caller configured: the client's defaults under the call's options
Configured == Spread(defaults, callOpts)

\* C11: once the cancellation signal of the call has fired, no transport
\* call is started for the call and the call does not resolve: it settles
\* only by rejecting.
C11_NoAttemptAfterAbort ==
    [][Fired => /\ fetchCalls' = fetchCalls
                /\ pc' # "done"
                /\ outcome'.status # "resolved"]_vars

\* the timeout has fired after a retryable failure: the retry is not made
C11_Witness ==
    /\ pc = "failed"
    /\ timedOut
    /\ raised.kind = "http" /\ raised.statusCode = 503
    /\ fetchCalls = 1 /\ CallRetries >= 1
    /\ outcome = Rejected(AbortReason)

\* C12: when the cancellation signal fires while the call waits between
\* attempts, be it for a Retry-After or for the backoff, the wait is
\* abandoned: from then on the call waits no longer and rejects.
C12_WaitAbandoned ==
    [][/\ (pc \in {"retryAfterWait", "backoff"} /\ ~Fired /\ Fired') => pc' = "failed"
       /\ (pc \in {"retryAfterWait", "backoff"} /\ Fired /\ pc' # pc)
            => (pc' = "failed" /\ elapsed' = elapsed)]_vars

\* C13: the signal handed to the transport is made of exactly the
\* configured sources, the caller's signal and the timeout: with both it
\* has fired in every state where either has fired, with one it is that one.
C13_SignalComposed ==
    fetchCalls >= 1 =>
        /\ sent.signal = (IF Has(Configured, "signal") THEN {"user"} ELSE {})
                         \cup (IF Has(Configured, "timeout") /\ Configured.timeout > 0
                               THEN {"timeout"} ELSE {})
        /\ userAborted => "user" \in sent.signal
        /\ timedOut => "timeout" \in sent.signal

\* both are configured and the caller's signal fired first
C13_Witness ==
    /\ fetchCalls >= 1
    /\ sent.signal = {"user", "timeout"}
    /\ userAborted /\ ~timedOut
    /\ outcome = Rejected(AbortReason)

\* C14: one call starts at most one timeout timer, when its options are
\* resolved; every attempt is handed the signal the resolution produced,
\* the same one as the attempt before, and a timeout that has fired stays
\* fired for the rest of the call.
C14_TimeoutSharedByAttempts ==
    [][/\ timersStarted' <= 1
       /\ (Has(pOpts, "signal") /\ "timeout" \in pOpts.signal) => timersStarted = 1
       /\ timedOut => timedOut'
       /\ fetchCalls' > fetchCalls
            => /\ timersStarted' = timersStarted
               /\ sent'.signal = (IF Has(pOpts, "signal") THEN pOpts.signal ELSE {})
               /\ fetchCalls >= 1 => sent'.signal = sent.signal]_vars

\* a second attempt is under way with the timer of the call
C14_Witness ==
    /\ fetchCalls = 2
    /\ pc = "fetching"
    /\ "timeout" \in sent.signal
    /\ timersStarted = 1
    /\ ~timedOut

\* C15: a transport call is started only when none is in flight and no hook
\* is running, and after the first one only when the retry decision of the
\* attempt before was made in favour and the Retry-After wait and the
\* backoff it asked for are over.
C15_AttemptsSequential ==
    [][fetchCalls' > fetchCalls
       => /\ pc \notin {"fetching", "afterResponse", "caught", "retryAfterWait", "backoff"}
          /\ fetchCalls' = fetchCalls + 1
          /\ fetchCalls >= 1
               => /\ decision.made /\ decision.retry
                  /\ elapsed >= decision.wait + CallMinTimeout * Pow2(attemptNumber - 1)]_vars

\* the afterResponse hook of the second attempt is running
C15_Witness ==
    /\ pc = "afterResponse"
    /\ fetchCalls = 2 /\ attemptNumber = 2
    /\ CallMinTimeout = 0

\* C16: a configured onFailedAttempt observer is invoked once for every
\* failed attempt, retried or not, and the call never settles on what the
\* observer did: it is rejected only with the failure of an attempt or with
\* the abort reason.
C16_ObserverEveryFailure ==
    [][(pc = "caught" /\ pc' # pc /\ Has(pOpts.retry, "onFailedAttempt"))
       => /\ failedAttemptCalls' = failedAttemptCalls + 1
          /\ ~ObserverThrew']_vars

\* the cookies of the response the latest attempt handled are in the jar
Persisted == res.setCookie # <<>> /\ Len(jar) >= 1 /\ jar[Len(jar)] = res.setCookie[1]

\* C17: cookies are persisted only from a successful response, and a call
\* that has persisted cookies makes no further transport call.
C17_CookiesOnlyOnFinalSuccess ==
    [][/\ (pc # "idle" /\ jar' # jar) => ok(res')
       /\ fetchCalls' > fetchCalls => ~Persisted]_vars

\* C18: a cookieJar.setCookie failure after a successful response does not
\* make the attempt a failed one: no attempt throws it and no call is
\* rejected with it.
C18_StoreFailureTolerated ==
    /\ raised.kind # "jar"
    /\ outcome.status = "rejected" => outcome.error.kind # "jar"

\* the retry options a client can have been given
ClientRetryChoices ==
    {EmptyRec} \cup {o.retry : o \in {x \in ExtendOptions : Has(x, "retry")}}

\* C19: the retry policy of a call is the built-in defaults overwritten
\* field by field by the client's retry options, overwritten field by field
\* by the call's: a statusCodes of the call replaces the inherited list, and
\* a call without retry option has the client's policy (a status that a
\* hook has pushed onto the client's list being on it).
C19_RetryPolicyLayered ==
    Has(pOpts, "headers") =>
        /\ \E r \in ClientRetryChoices :
              \/ defaults.retry = Spread(defaultRetryConfig, r)
              \/ defaults.retry = PushStatus([retry |-> Spread(defaultRetryConfig, r)]).retry
        /\ pOpts.retry = Spread(defaults.retry,
                                IF Has(callOpts, "retry") THEN callOpts.retry ELSE EmptyRec)
        /\ (Has(callOpts, "retry") /\ Has(callOpts.retry, "statusCodes"))
               => pOpts.retry.statusCodes = callOpts.retry.statusCodes

\* the client gave retries and statusCodes, the call maxRetryAfter and a
\* retries of its own; the attempts were made under the layered policy
C19_Witness ==
    /\ fetchCalls = 3
    /\ defaults.retry.retries = 1 /\ defaults.retry.statusCodes = {404}
    /\ callOpts = [retry |-> [retries |-> 2, maxRetryAfter |-> 1000]]
    /\ pOpts.retry = [retries |-> 2, minTimeout |-> 50, statusCodes |-> {404},
                      networkErrors |-> TRUE, maxRetryAfter |-> 1000]

\* the json mode the caller asked for: the call's own value, else that of
\* the nearest derivation that set one, else off
ExpectedJson == IF Has(callOpts, "json") THEN callOpts.json ELSE nearestJson = {TRUE}

\* C20: the json mode of a call is the call's own value if it gave one,
\* else the value of the nearest derivation that set one: the call resolves
\* with the raw response exactly when that mode is off.
C20_NearestJsonWins ==
    /\ Has(pOpts, "headers") => (Has(pOpts, "json") /\ pOpts.json) = ExpectedJson
    /\ pc = "done" => (outcome.value.kind = "response") = ~ExpectedJson

\* extend({json: true}).extend({json: false}): a JSON response comes back raw
C20_Witness ==
    /\ depth = 2
    /\ Has(defaults, "headers") /\ nearestJson = {FALSE}
    /\ ~Has(callOpts, "json")
    /\ pc = "done"
    /\ res.body = "json"
    /\ outcome.value.kind = "response"

\* C21: a derivation merges headers and retry field by field: the derived
\* client has the parent's default headers under those of the overrides,
\* and the parent's retry fields under those of the overrides.
C21_ExtendMergesFieldwise ==
    [][depth' = depth + 1
       => \A o \in ExtendOptions :
             defaults' = extend(defaults, o)
             => /\ NewHeaders(HeaderSource(defaults'))
                      = mergeHeaders(HeaderSource(defaults), HeaderSource(o))
                /\ defaults'.retry
                      = Spread(defaults.retry, IF Has(o, "retry") THEN o.retry ELSE EmptyRec)]_vars

\* C22: a mutation of the headers object the parent was created with, made
\* after the derivation, does not change what the derived client sends: its
\* calls carry the header as it was when the client was derived.
C22_DerivedClientIsolated ==
    (alias = "mutated" /\ fetchCalls >= 1 /\ ~Has(hookRet, "opts"))
    => sent.headers["x-api-key"] = <<"k">>

\* a header source as the sequence of its entries
EntriesOf(source) ==
    CASE source.form = "none" -> <<>>
      [] source.form = "headers" -> HeaderEntries(source.h)
      [] OTHER -> source.entries

\* the names of the entries, without their case
Keys(entries) == {Lower(entries[i][1]) : i \in 1..Len(entries)}

\* the value the last entry of the name k gives
RECURSIVE LastValue(_, _, _)
LastValue(entries, k, value) ==
    IF entries = <<>> THEN value
    ELSE LastValue(Tail(entries), k,
                   IF Lower(Head(entries)[1]) = k THEN Head(entries)[2] ELSE value)

\* merged has the overlay's value for every name of the overlay and the
\* base's value for every name of the base alone, and no other name
Overlaid(base, overlay, merged) ==
    /\ DOMAIN merged = Keys(base) \cup Keys(overlay)
    /\ \A k \in Keys(overlay) : merged[k] = LastValue(overlay, k, <<>>)
    /\ \A k \in Keys(base) \ Keys(overlay) : merged[k] = LastValue(base, k, <<>>)

Mappings == {"none", "object", "headers"}

\* C23: for base and overlay given as plain objects or Headers instances,
\* mergeHeaders returns the overlay's value for every name of the overlay
\* (names compared without case, replaced and not appended) and the base's
\* value for every name of the base alone.
C23_OverlayWins ==
    (/\ helperCall.fn = "mergeHeaders"
     /\ helperCall.defaults.form \in Mappings
     /\ helperCall.options.form \in Mappings)
    => Overlaid(EntriesOf(helperCall.defaults), EntriesOf(helperCall.options),
                helperResult.headers)

\* the overlay redefines the base's header in another case and adds one
C23_Witness ==
    /\ helperCall.fn = "mergeHeaders"
    /\ helperCall.defaults = ObjectOf(<<(<<"X-Api-Key", <<"a">> >>)>>)
    /\ helperCall.options = ObjectOf(<<(<<"x-api-key", <<"b">> >>), (<<"Content-Type", <<"a">> >>)>>)
    /\ helperResult.headers["x-api-key"] = <<"b">>
    /\ helperResult.headers["content-type"] = <<"a">>

\* C24: an overlay given as a list of [name, value] pairs is merged as the
\* mapping of the same entries is: every listed name has its value, the
\* later pair winning.
C24_PairsOverlayWins ==
    (helperCall.fn = "mergeHeaders" /\ helperCall.options.form = "pairs")
    => Overlaid(EntriesOf(helperCall.defaults), EntriesOf(helperCall.options),
                helperResult.headers)

\* C27: calculateRetryAfter returns undefined without a Retry-After header,
\* floor(1000 * s) for a number s of seconds and max(1, date - now) for a
\* date.
C27_RetryAfterValue ==
    helperCall.fn = "calculateRetryAfter"
    => LET header == helperCall.retryAfter
           ms == helperResult.ms
       IN /\ header.form = "none" => ms = Undefined
          /\ header.form = "number" => (ms * 1000 <= header.us /\ header.us < (ms + 1) * 1000)
          /\ header.form = "date" => ms = (IF header.delta > 1 THEN header.delta ELSE 1)

\* 2.0005 seconds are 2000 milliseconds
C27_Witness ==
    /\ helperCall.fn = "calculateRetryAfter"
    /\ helperCall.retryAfter = Seconds(2000500)
    /\ helperResult.ms = 2000

\* C28: for every Retry-After header in number or date form the value
\* calculateRetryAfter returns is a number of milliseconds of at least 1.
C28_RetryAfterPositive ==
    (helperCall.fn = "calculateRetryAfter" /\ helperCall.retryAfter.form \in {"number", "date"})
    => helperResult.ms >= 1

\* C29: with prefixUrl and a target that is not itself an absolute URL, the
\* resolved URL is the prefix when the target without one leading "/" is
\* empty, and otherwise the prefix with exactly one trailing "/" followed by
\* the target without that "/".
C29_PrefixPreserved ==
    (/\ helperCall.fn = "resolveUrl"
     /\ ~(helperCall.url.path # <<>> /\ IsOrigin(Head(helperCall.url.path))))
    => LET prefix == helperCall.prefixUrl.path
           target == helperCall.url.path
           stripped == IF target # <<>> /\ Head(target) = "/" THEN Tail(target) ELSE target
           slashed == IF prefix[Len(prefix)] = "/" THEN prefix ELSE prefix \o <<"/">>
       IN helperResult.url.path =
              IF stripped = <<>>
              THEN (IF Len(prefix) = 1 THEN slashed ELSE prefix)
              ELSE slashed \o stripped

\* the step in which an attempt goes on with a response: the transport's
\* when no afterResponse hook is configured, else the one the hook returns
Handled ==
    \/ pc = "fetching" /\ ~Has(pOpts, "afterResponse") /\ res' # NoResponse
    \/ hookRuns'.returns = hookRuns.returns + 1

\* C25: an attempt whose response after the hook is not in the success
\* range throws an HttpError with the status of that response; its jsonBody
\* is the parsed body when json mode is on and the body parses, and absent
\* otherwise, a parse failure never taking the place of the HttpError.
C25_ErrorResponseThrowsHttpError ==
    [][(Handled /\ ~ok(res'))
       => /\ pc' = "caught"
          /\ raised'.kind = "http"
          /\ raised'.statusCode = res'.status
          /\ raised'.jsonBody = (IF JsonMode /\ res'.body = "json" THEN "parsed" ELSE "absent")]_vars

\* in json mode a 404 whose body is not JSON is thrown as an HttpError
\* without jsonBody
C25_Witness ==
    /\ pc = "caught"
    /\ JsonMode
    /\ res.status = 404
    /\ res.body = "text"
    /\ raised.kind = "http"
    /\ raised.statusCode = 404
    /\ raised.jsonBody = "absent"

\* C26: a successful attempt resolves the call with null when json mode is
\* on and the status is 204 or 205, no parse being attempted, with the
\* parsed body when json mode is on and the status is another success
\* status, and with the response itself, the hook's if there is a hook, when
\* json mode is off.
C26_SuccessValue ==
    [][(Handled /\ ok(res'))
       => /\ pc' = "done"
             => outcome' = Resolved(IF JsonMode
                                    THEN IF res'.status \in {204, 205}
                                         THEN [kind |-> "null"]
                                         ELSE [kind |-> "json"]
                                    ELSE [kind |-> "response", response |-> res'])
          /\ (JsonMode /\ res'.status \in {204, 205}) => raised'.kind # "error"]_vars

\* a json call answered with 205 and a body that is not JSON resolves to null
C26_Witness ==
    /\ pc = "done"
    /\ JsonMode
    /\ res.status = 205
    /\ res.body = "text"
    /\ outcome = Resolved([kind |-> "null"])

\* C30: the afterResponse hook runs once in each attempt that has a
\* response, on the options object the transport is called with, so that
\* the next transport call sends the header the hook has set; the response
\* it returns is the one that is classified and that the caller receives;
\* an HttpError it throws is caught as the failure of the attempt.
C30_HookPerAttempt ==
    [][/\ hookRuns'.calls # hookRuns.calls
          => /\ pc = "afterResponse"
             /\ hookRuns'.calls = hookRuns.calls + 1
             /\ hookRuns'.calls <= attemptNumber
       /\ (pc = "afterResponse" /\ pc' # "afterResponse")
          => hookRuns'.calls = hookRuns.calls + 1
       /\ fetchCalls' = fetchCalls + 1
          => /\ sent'.headers = pOpts.headers
             /\ (hookRuns.calls >= 1 /\ Has(pOpts.headers, "authorization"))
                => Has(sent'.headers, "authorization")
       /\ hookRuns'.returns = hookRuns.returns + 1
          => /\ ok(res') => ~(pc' = "caught" /\ raised'.kind = "http")
             /\ ~ok(res') => (pc' = "caught" /\ raised'.kind = "http"
                              /\ raised'.statusCode = res'.status)
             /\ (pc' = "done" /\ ~JsonMode)
                => outcome' = Resolved([kind |-> "response", response |-> res'])
       /\ (hookRuns'.calls = hookRuns.calls + 1 /\ hookRuns'.returns = hookRuns.returns
           /\ raised'.kind = "http")
          => /\ pc' = "caught"
             /\ raised'.statusCode = res.status
             /\ raised'.oid = attemptNumber]_vars

\* the second transport call carries the header the hook set before it
\* threw in the first attempt
C30_Witness ==
    /\ pc = "fetching"
    /\ attemptNumber = 2
    /\ hookRuns = [calls |-> 1, returns |-> 0, threw |-> 1]
    /\ Has(sent.headers, "authorization")
    /\ sent.headers["authorization"] = <<"Bearer new-token">>

\* the attempt has failed with what the afterResponse hook threw, and that
\* is not an HttpError
HookFailed ==
    /\ pc = "caught"
    /\ hookRuns.threw = attemptNumber
    /\ raised.kind # "http"

\* C31: what an afterResponse hook throws that is not an HttpError is
\* retried only when the configured shouldRetry predicate has accepted it,
\* never by the network rule or the status rule, and otherwise the call
\* rejects with the thrown value itself (an onFailedAttempt observer that
\* throws aside).
C31_HookErrorOnlyByPredicate ==
    [][HookFailed
       => /\ pc' \in {"retryAfterWait", "backoff"} => decision'.predicate
          /\ pc' = "failed" => (outcome' = Rejected(raised) \/ ObserverThrew')]_vars

\* C32: calls on one client share nothing but the cookie jar: no step of
\* a call, its hooks included, changes the options the caller gave or what
\* another call on the client resolves its options to.
C32_CallsShareNothing ==
    [][Running
       => /\ callOpts' = callOpts
          /\ ResolvedOptions(defaults', EmptyRec, <<>>) = ResolvedOptions(defaults, EmptyRec, <<>>)]_vars

\* C33: when everything a call awaits completes, a call that has started
\* settles: it does not stay in processing, attempting, deciding or waiting
\* for ever.
C33_CallSettles == Running ~> (pc \in {"done", "failed"})

\* the call has settled by failing after the last attempt its ceiling allows
C33_Witness ==
    /\ pc = "failed"
    /\ Retries = MaxRetries
    /\ attemptNumber = MaxRetries + 1
    /\ fetchCalls = MaxRetries + 1
    /\ outcome.status = "rejected"

\* C34: in a call with a cookie jar, the url the cookies were read for is
\* the url every transport call is sent to and the url the cookies of the
\* response are stored against.
C34_OneCookieUrl ==
    [][Has(pOpts, "cookieJar")
       => /\ fetchCalls' = fetchCalls + 1 => sent'.url = cookieUrl
          /\ (Running /\ jar' # jar) => pUrl = cookieUrl]_vars

\* C35: when the searchParams option is given, the query of the request
\* url is the serialization of searchParams and nothing else: the query the
\* target had is dropped.
C35_SearchParamsReplaceQuery ==
    (helperCall.fn = "applySearchParams" /\ Has(helperCall.opts, "searchParams"))
    => LET searchParams == helperCall.opts.searchParams
       IN helperResult.url.search =
              (IF searchParams.form = "string" THEN searchParams.pairs
               ELSE searchParams.entries)

====
